---- MODULE Spec2Model ----
(***************************************************************************)
(* A model of snakefood's gendeps() (lib/python/snakefood/gendeps.py):     *)
(* the option checks, the worklist loop that calls find_dependencies on    *)
(* each file once and records the edges in allfiles, the follow rounds,    *)
(* and the summary that follows the loop.                                  *)
(*                                                                         *)
(* A path is the sequence of its components: /proj/pkg/mod.py is           *)
(* <<"proj", "pkg", "mod.py">>.  Python's None is the empty tuple None, a  *)
(* string value p is the one-element tuple Str(p), and a Python pair       *)
(* (a, b) is <<a, b>>; so the sentinel (None, None) is <<None, None>>, an  *)
(* identity (root, rel) is <<Str(root), Str(rel)>>, and the three kinds    *)
(* of value that can sit in a set of allfiles are told apart.              *)
(*                                                                         *)
(* util.iter_pyfiles, roots.find_roots, roots.relfile and                  *)
(* find.find_dependencies are imported by gendeps.py from modules that     *)
(* are not part of the source at hand.  The first three are modelled from  *)
(* their description in the specification, over a small fixed file         *)
(* system.  find_dependencies is the external import extractor: what it    *)
(* returns for a file is drawn, the first time the file is read, from the  *)
(* bounded sets below and remembered in found, so that a file has one      *)
(* content for the whole behaviour.                                        *)
(*                                                                         *)
(* The option --print-roots (lines 67-71), which prints and returns        *)
(* before anything here happens, is taken to be off.                       *)
(***************************************************************************)
EXTENDS Naturals, Sequences, FiniteSets, TLC

VARIABLES
    args,             \* the input paths, after line 61-63
    internal,         \* opts.internal
    follow,           \* opts.follow
    inroots,          \* the roots of the input files (line 83, 97)
    pc,               \* where gendeps() stands
    fiter,            \* what is left of the current round's iterator
    newfiles,         \* the candidate set of the next round (line 109)
    processed_files,  \* line 105
    allfiles,         \* line 103: identity -> set of targets
    allerrors,        \* line 104
    reports,          \* what lines 157-169 have written, and at which opts.verbose
    found_roots,      \* what lines 175-182 have written
    found,            \* the file contents read so far: path -> result of find_dependencies
    extractions,      \* history: how many times find_dependencies ran on each path
    discovered,       \* history: how many times each path was discovered
    queued,           \* history: every path ever added to newfiles
    run,              \* 1 in the first run, 2 in a second run on the same inputs
    prev_allfiles,    \* allfiles at the end of the first run
    prev_processed    \* processed_files at the end of the first run

vars == <<args, internal, follow, inroots, pc, fiter, newfiles,
          processed_files, allfiles, allerrors, reports, found_roots, found,
          extractions, discovered, queued, run, prev_allfiles, prev_processed>>

---------------------------------------------------------------------------
(* Bounds of the model. *)

MaxArgs == 2
MaxImports == 2
\* The longest command line that is run a second time in another order.
MaxArgsAgain == 1

---------------------------------------------------------------------------
(* Python values. *)

None == <<>>
Str(p) == <<p>>
Sentinel == <<None, None>>

ERROR_IMPORT == "ERROR_IMPORT"
ERROR_SYMBOL == "ERROR_SYMBOL"
\* Line 159: the verbosity from which the symbols are reported.
SymbolVerbosity == 2

---------------------------------------------------------------------------
(* The file system. *)

Proj == <<"proj">>
Lib == <<"lib">>
A == <<"proj", "a.py">>
B == <<"proj", "b.py">>
Pkg == <<"proj", "pkg">>
PkgInit == <<"proj", "pkg", "__init__.py">>
Mod == <<"proj", "pkg", "mod.py">>
Os == <<"lib", "os.py">>
X == <<"tmp", "x.py">>
Missing == <<"proj", "nofile.py">>

PyFiles == {A, B, PkgInit, Mod, Os, X}
Dirs == {Proj, Pkg, Lib, <<"tmp">>}
PackageRoots == {Proj, Lib}
Ignores == {".svn", "CVS", "build", ".hg", ".git"}
Cwd == Proj

\* Every path the loop can meet.
Paths == PyFiles \cup {Pkg}
\* What an import can resolve to: a module file, or a package by its
\* directory or by its initializer.
Targets == {A, Pkg, PkgInit, Os, X}
\* What can be named on the command line.
InputPaths == {A, B, Pkg, X, Missing}

exists(fn) == fn \in PyFiles \cup Dirs

\* Byte order of the names that occur, for sorted().
NameRank(n) ==
    CASE n = "__init__.py" -> 1
      [] n = "a.py" -> 2
      [] n = "b.py" -> 3
      [] n = "lib" -> 4
      [] n = "mod.py" -> 5
      [] n = "nofile.py" -> 6
      [] n = "os.py" -> 7
      [] n = "pkg" -> 8
      [] n = "proj" -> 9
      [] n = "tmp" -> 10
      [] n = "x.py" -> 11

RECURSIVE PathLess(_, _)
PathLess(p, q) ==
    IF p = <<>> THEN q # <<>>
    ELSE IF q = <<>> THEN FALSE
    ELSE IF Head(p) = Head(q) THEN PathLess(Tail(p), Tail(q))
    ELSE NameRank(Head(p)) < NameRank(Head(q))

RECURSIVE sorted(_)
sorted(S) ==
    IF S = {} THEN <<>>
    ELSE LET m == CHOOSE x \in S : \A y \in S \ {x} : PathLess(x, y)
         IN  <<m>> \o sorted(S \ {m})

IsPrefix(d, p) == Len(d) <= Len(p) /\ SubSeq(p, 1, Len(d)) = d

basename(fn) == fn[Len(fn)]
dirname(fn) == SubSeq(fn, 1, Len(fn) - 1)

Ignored(fn) == \E i \in 1..Len(fn) : fn[i] \in Ignores

\* The package root a path lies under: the longest one that is a prefix.
RootOf(fn) ==
    LET cands == {r \in PackageRoots : IsPrefix(r, fn) /\ Len(r) < Len(fn)}
    IN  IF cands = {} \/ Ignored(fn) THEN None
        ELSE Str(CHOOSE r \in cands : \A s \in cands : Len(s) <= Len(r))

relfile(fn) ==
    LET root == RootOf(fn)
    IN  IF root = None THEN None
        ELSE <<root, Str(SubSeq(fn, Len(root[1]) + 1, Len(fn)))>>

find_roots(paths) ==
    {r \in PackageRoots :
        \E i \in 1..Len(paths) :
            /\ ~Ignored(paths[i])
            /\ paths[i] = r \/ RootOf(paths[i]) = Str(r)}

RECURSIVE iter_pyfiles(_)
iter_pyfiles(paths) ==
    IF paths = <<>> THEN <<>>
    ELSE LET dn == Head(paths)
             under == {f \in PyFiles : IsPrefix(dn, f) /\ ~Ignored(f)}
         IN  (IF dn \in PyFiles THEN <<dn>> ELSE sorted(under))
                 \o iter_pyfiles(Tail(paths))

---------------------------------------------------------------------------
(* The import extractor. *)

SeqsUpTo(S, n) == UNION {[1..k -> S] : k \in 0..n}

RECURSIVE SumOver(_, _)
SumOver(S, f) ==
    IF S = {} THEN 0
    ELSE LET x == CHOOSE y \in S : TRUE
         IN  Len(f[x]) + SumOver(S \ {x}, f)

\* What a failed import leaves in the error list: two names that could not be
\* imported, one of them also met as a symbol that is not a module.
ErrorRecords ==
    {<<ERROR_IMPORT, "m1">>, <<ERROR_IMPORT, "m2">>, <<ERROR_SYMBOL, "m1">>}

\* The import statements read so far, in all the files read.
ImportsRead ==
    SumOver(DOMAIN found, [f \in DOMAIN found |-> found[f].files \o found[f].errors])

\* What one import statement comes to: a target, or an error record.
Outcomes ==
    <<A, Pkg, PkgInit, Os, X,
      <<ERROR_IMPORT, "m1">>, <<ERROR_IMPORT, "m2">>, <<ERROR_SYMBOL, "m1">>>>

\* The import statements of a file, at most n: each outcome at most once, in
\* the order of Outcomes.
ImportLists(n) ==
    {[i \in 1..Len(s) |-> Outcomes[s[i]]] :
        s \in {t \in SeqsUpTo(1..Len(Outcomes), n) :
                  \A i \in 1..Len(t) : i < Len(t) => t[i] < t[i + 1]}}

\* A file is a list of import statements; each resolves to a target or
\* fails with an error record.  A directory cannot be read and gives nothing.
find_dependencies(fn) ==
    IF fn \in DOMAIN found THEN {found[fn]}
    ELSE IF fn \notin PyFiles THEN {[files |-> <<>>, errors |-> <<>>]}
    ELSE {[files |-> SelectSeq(imports, LAMBDA o : o \in Targets),
           errors |-> SelectSeq(imports, LAMBDA o : o \in ErrorRecords)] :
            imports \in ImportLists(MaxImports - ImportsRead)}

---------------------------------------------------------------------------
(* The loop body, lines 110-144. *)

InRoots(x) == \E r \in inroots : x = Str(r)

\* The test of line 111 lost.
NeverProcessed(fn) == FALSE

AlreadyProcessed(fn) == fn \in processed_files

collapse(fn) == IF basename(fn) = "__init__.py" THEN dirname(fn) ELSE fn

\* Lines 122-123 lost: a package initializer keeps its own name as a source.
SourceIdentityRaw(fn) == relfile(fn)

\* Lines 122-127: the identity of a source, its __init__.py removed.
SourceIdentity(fn) == relfile(collapse(fn))

\* Lines 137-138 lost: a package initializer keeps its own name as a target.
TargetIdentityRaw(dfn) == relfile(dfn)

\* Lines 136-140: the identity of a dependency, its __init__.py removed.
TargetIdentity(dfn) == relfile(collapse(dfn))

\* Lines 128-129 lost: a source without identity is not skipped.
SkipSourceOutsideOnly(from_) == internal /\ from_ # None /\ ~InRoots(from_[1])

\* Lines 128-131: the two "continue" that skip a source.
SkipSource(from_) ==
    \/ from_ = None
    \/ internal /\ ~InRoots(from_[1])

\* allfiles[k] = set([v]) in the place of allfiles[k].add(v).
AddReplacing(m, k, v) == [x \in DOMAIN m \cup {k} |-> IF x = k THEN {v} ELSE m[x]]

\* allfiles[k].add(v) on a defaultdict(set).
Add(m, k, v) ==
    [x \in DOMAIN m \cup {k} |->
        IF x = k THEN (IF k \in DOMAIN m THEN m[k] ELSE {}) \cup {v} ELSE m[x]]

\* Line 132 assigning set([(None, None)]) in the place of adding to the set.
SentinelAlone(m, from_) ==
    [x \in DOMAIN m \cup {from_} |-> IF x = from_ THEN {Sentinel} ELSE m[x]]

\* Line 132 lost.
WithoutSentinel(m, from_) == m

\* Line 132: the source appears in the output even without dependencies.
WithSentinel(m, from_) == Add(m, from_, Sentinel)

\* Line 141 subscripts to_: with to_ None that raises TypeError.
Raises141(to_) == internal /\ to_ = None

\* Line 141 without its test of the root.
SkipNoTarget(to_) == FALSE

\* Line 141 with "in" for "not in".
SkipTargetInverted(to_) == internal /\ InRoots(to_[1])

\* Line 141 also skipping a target that is a node already.
SkipTargetKnown(to_) == (internal /\ ~InRoots(to_[1])) \/ to_ \in DOMAIN allfiles

\* Line 141-142: the "continue" that skips a target.
SkipTarget(to_) == internal /\ ~InRoots(to_[1])

\* Lines 142 and 144 exchanged: a skipped target is queued all the same.
RECURSIVE AddDependenciesQueueingSkipped(_, _, _)
AddDependenciesQueueingSkipped(files, from_, st) ==
    IF files = <<>> THEN st
    ELSE LET dfn == Head(files)
             to_ == TargetIdentity(dfn)
         IN  IF Raises141(to_) THEN [st EXCEPT !.raised = TRUE]
             ELSE IF SkipTarget(to_)
                  THEN AddDependenciesQueueingSkipped(Tail(files), from_,
                           [st EXCEPT !.newfiles = st.newfiles \cup {dfn}])
                  ELSE AddDependenciesQueueingSkipped(Tail(files), from_,
                           [st EXCEPT !.allfiles = Add(st.allfiles, from_, to_),
                                      !.newfiles = st.newfiles \cup {dfn}])

\* Lines 135-144 from the dependency at hand to the end of the list, or to
\* the exception.  st is [allfiles, newfiles, raised].
RECURSIVE AddDependencies(_, _, _)
AddDependencies(files, from_, st) ==
    IF files = <<>> THEN st
    ELSE LET dfn == Head(files)
             to_ == TargetIdentity(dfn)
         IN  IF Raises141(to_) THEN [st EXCEPT !.raised = TRUE]
             ELSE IF SkipTarget(to_)
                  THEN AddDependencies(Tail(files), from_, st)
                  ELSE AddDependencies(Tail(files), from_,
                           [st EXCEPT !.allfiles = Add(st.allfiles, from_, to_),
                                      !.newfiles = st.newfiles \cup {dfn}])

Range(s) == {s[i] : i \in 1..Len(s)}

\* One more discovery of each path of S.
Discover(d, S) == [p \in DOMAIN d |-> IF p \in S THEN d[p] + 1 ELSE d[p]]

RECURSIVE Occurrences(_, _)
Occurrences(s, p) ==
    IF s = <<>> THEN 0
    ELSE (IF Head(s) = p THEN 1 ELSE 0) + Occurrences(Tail(s), p)

---------------------------------------------------------------------------
(* The state after option parsing, lines 58-63. *)

EmptyMap == [k \in {} |-> {}]

Init ==
    \* The command line names at most MaxArgs paths, in sorted order as a
    \* shell glob gives them; none means the current directory (lines 61-63).
    /\ \E argv \in SeqsUpTo(InputPaths, MaxArgs) :
           /\ \A i, j \in 1..Len(argv) : i < j => ~PathLess(argv[j], argv[i])
           /\ args = IF argv = <<>> THEN <<Cwd>> ELSE argv
    /\ internal \in BOOLEAN
    /\ follow \in BOOLEAN
    /\ inroots = {}
    /\ pc = "start"
    /\ fiter = <<>>
    /\ newfiles = {}
    /\ processed_files = {}
    /\ allfiles = EmptyMap
    /\ allerrors = <<>>
    /\ reports = [verbose |-> 0, sections |-> <<>>]
    /\ found_roots = {}
    /\ found = EmptyMap
    /\ extractions = [p \in Paths |-> 0]
    /\ discovered = [p \in Paths |-> 0]
    /\ queued = {}
    /\ run = 1
    /\ prev_allfiles = EmptyMap
    /\ prev_processed = {}

\* Lines 75-79: parser.error on an input path that does not exist.
MissingInput == \E i \in 1..Len(args) : ~exists(args[i])

\* Lines 84-86 lost.
NoRootsUnchecked == FALSE

\* Lines 84-86: parser.error on --internal without roots.
NoRoots == internal /\ find_roots(args) = {}

\* Lines 75-86, ending in parser.error, which exits.
ParserError ==
    /\ pc = "start"
    /\ MissingInput \/ NoRoots
    /\ pc' = "parser_error"
    /\ UNCHANGED <<args, internal, follow, inroots, fiter, newfiles,
                   processed_files, allfiles, allerrors, reports, found_roots,
                   found, extractions, discovered, queued, run,
                   prev_allfiles, prev_processed>>

\* Lines 75-107 when no check fails: the roots, the empty accumulators and
\* the first iterator.
Start ==
    /\ pc = "start"
    /\ ~(MissingInput \/ NoRoots)
    /\ inroots' = find_roots(args)
    /\ allfiles' = EmptyMap
    /\ allerrors' = <<>>
    /\ processed_files' = {}
    /\ fiter' = iter_pyfiles(args)
    /\ newfiles' = {}
    /\ discovered' = [p \in Paths |-> Occurrences(iter_pyfiles(args), p)]
    /\ pc' = "loop"
    /\ UNCHANGED <<args, internal, follow, reports, found_roots,
                   found, extractions, queued, run, prev_allfiles,
                   prev_processed>>

\* Lines 110-112: a file of the iterator that was processed already.
SkipFile ==
    /\ pc = "loop"
    /\ fiter # <<>>
    /\ AlreadyProcessed(Head(fiter))
    /\ fiter' = Tail(fiter)
    /\ UNCHANGED <<args, internal, follow, inroots, pc, newfiles,
                   processed_files, allfiles, allerrors, reports, found_roots,
                   found, extractions, discovered, queued, run,
                   prev_allfiles, prev_processed>>

\* Line 117 moved below line 131: the errors of a skipped file are lost.
ProcessErrorsInScope(fn, rest) ==
    /\ \E res \in find_dependencies(fn) :
         LET from_ == SourceIdentity(fn)
             st0 == [allfiles |-> allfiles, newfiles |-> newfiles, raised |-> FALSE]
             st == IF SkipSource(from_) THEN st0
                   ELSE AddDependencies(res.files, from_,
                            [st0 EXCEPT !.allfiles = WithSentinel(allfiles, from_)])
         IN  /\ processed_files' = processed_files \cup {fn}
             /\ found' = IF fn \in DOMAIN found THEN found ELSE (fn :> res) @@ found
             /\ extractions' = [extractions EXCEPT ![fn] = @ + 1]
             /\ discovered' = Discover(discovered, Range(res.files))
             /\ allerrors' = IF SkipSource(from_) THEN allerrors
                             ELSE allerrors \o res.errors
             /\ allfiles' = st.allfiles
             /\ newfiles' = st.newfiles
             /\ queued' = queued \cup st.newfiles
             /\ fiter' = rest
             /\ pc' = IF st.raised THEN "type_error_loop" ELSE "loop"
    /\ UNCHANGED <<args, internal, follow, inroots, reports,
                   found_roots, run, prev_allfiles, prev_processed>>

\* Lines 115-144 for the file fn, the iterator being left with rest.
Process(fn, rest) ==
    /\ \E res \in find_dependencies(fn) :
         LET from_ == SourceIdentity(fn)
             st0 == [allfiles |-> allfiles, newfiles |-> newfiles, raised |-> FALSE]
             st == IF SkipSource(from_) THEN st0
                   ELSE AddDependencies(res.files, from_,
                            [st0 EXCEPT !.allfiles = WithSentinel(allfiles, from_)])
         IN  /\ processed_files' = processed_files \cup {fn}
             /\ found' = IF fn \in DOMAIN found THEN found ELSE (fn :> res) @@ found
             /\ extractions' = [extractions EXCEPT ![fn] = @ + 1]
             /\ discovered' = Discover(discovered, Range(res.files))
             /\ allerrors' = allerrors \o res.errors
             /\ allfiles' = st.allfiles
             /\ newfiles' = st.newfiles
             /\ queued' = queued \cup st.newfiles
             /\ fiter' = rest
             /\ pc' = IF st.raised THEN "type_error_loop" ELSE "loop"
    /\ UNCHANGED <<args, internal, follow, inroots, reports,
                   found_roots, run, prev_allfiles, prev_processed>>

\* Lines 110-144 for a file not processed yet.
ProcessFile ==
    /\ pc = "loop"
    /\ fiter # <<>>
    /\ ~AlreadyProcessed(Head(fiter))
    /\ Process(Head(fiter), Tail(fiter))

\* Line 147 testing the candidates that are not processed yet.
AnotherRoundUnprocessed == follow /\ newfiles \ processed_files # {}

\* Line 147 breaking when there are candidates.
AnotherRoundInverted == follow /\ newfiles = {}

\* Line 147 without its test of opts.follow.
AnotherRoundUnasked == newfiles # {}

\* Line 147: whether the while loop goes round again.
AnotherRound == follow /\ newfiles # {}

\* Lines 147-150 and 109: the end of a round.
EndRound ==
    /\ pc = "loop"
    /\ fiter = <<>>
    /\ IF AnotherRound
       THEN /\ fiter' = sorted(newfiles)
            /\ newfiles' = {}
            /\ pc' = "loop"
       ELSE /\ pc' = "summary"
            /\ UNCHANGED <<fiter, newfiles>>
    /\ UNCHANGED <<args, internal, follow, inroots, processed_files,
                   allfiles, allerrors, reports, found_roots, found,
                   extractions, discovered, queued, run, prev_allfiles,
                   prev_processed>>

\* Line 164: the names of one kind.
NamesOf(errtype) ==
    {allerrors[i][2] : i \in {j \in 1..Len(allerrors) : allerrors[j][1] = errtype}}

\* Byte order of the names that an error record can hold, for the sorted of
\* line 168.
ModuleRank(n) ==
    CASE n = "m1" -> 1
      [] n = "m2" -> 2

\* Line 168: sorted(names).
RECURSIVE sorted_names(_)
sorted_names(S) ==
    IF S = {} THEN <<>>
    ELSE LET m == CHOOSE x \in S : \A y \in S \ {x} : ModuleRank(x) < ModuleRank(y)
         IN  <<m>> \o sorted_names(S \ {m})

\* Lines 159-161 without the test of opts.verbose.
ReportEverything(verbose) ==
    LET kinds == <<ERROR_IMPORT, ERROR_SYMBOL>>
        nonempty == SelectSeq(kinds, LAMBDA k : NamesOf(k) # {})
    IN  [i \in 1..Len(nonempty) |->
            <<nonempty[i], sorted_names(NamesOf(nonempty[i]))>>]

\* Lines 158-169: the sections written at verbosity verbose, each the kind
\* and the lines of its names.
Report(verbose) ==
    LET kinds == <<ERROR_IMPORT>>
                     \o (IF verbose >= SymbolVerbosity THEN <<ERROR_SYMBOL>> ELSE <<>>)
        nonempty == SelectSeq(kinds, LAMBDA k : NamesOf(k) # {})
    IN  [i \in 1..Len(nonempty) |->
            <<nonempty[i], sorted_names(NamesOf(nonempty[i]))>>]

\* Line 178 applies itemgetter(0) to every target: TypeError on a None.
Raises178 == \E k \in DOMAIN allfiles : None \in allfiles[k]

\* Lines 175-182: the roots of the keys and of the targets.
FoundRootsOf(m) ==
    ({k[1] : k \in DOMAIN m} \cup UNION {{t[1] : t \in m[k]} : k \in DOMAIN m})
        \ {None}

\* Lines 153-186: the report, the roots found and output_depends(allfiles).
\* opts.verbose is used by nothing modelled before line 159, so the run's
\* verbosity is drawn here.
Summary ==
    /\ pc = "summary"
    /\ \E verbose \in 0..SymbolVerbosity :
           reports' = [verbose |-> verbose, sections |-> Report(verbose)]
    /\ IF Raises178
       THEN /\ pc' = "type_error_roots"
            /\ UNCHANGED found_roots
       ELSE /\ found_roots' = FoundRootsOf(allfiles)
            /\ pc' = "done"
    /\ UNCHANGED <<args, internal, follow, inroots, fiter, newfiles,
                   processed_files, allfiles, allerrors, found,
                   extractions, discovered, queued, run, prev_allfiles,
                   prev_processed>>

Next ==
    \/ ParserError
    \/ Start
    \/ SkipFile
    \/ ProcessFile
    \/ EndRound
    \/ Summary

Spec == Init /\ [][Next]_vars

\* gendeps() is one sequential thread: a step that can be taken is taken.
FairSpec == Spec /\ WF_vars(Next)

\* The same command run again with --follow added, on the same files, after
\* a run without it has returned.
Rerun ==
    /\ pc = "done"
    /\ run = 1
    /\ ~follow
    /\ run' = 2
    /\ follow' = TRUE
    /\ prev_allfiles' = allfiles
    /\ prev_processed' = processed_files
    /\ pc' = "start"
    /\ inroots' = {}
    /\ fiter' = <<>>
    /\ newfiles' = {}
    /\ processed_files' = {}
    /\ allfiles' = EmptyMap
    /\ allerrors' = <<>>
    /\ reports' = [verbose |-> 0, sections |-> <<>>]
    /\ found_roots' = {}
    /\ extractions' = [p \in Paths |-> 0]
    /\ discovered' = [p \in Paths |-> 0]
    /\ queued' = {}
    /\ UNCHANGED <<args, internal, found>>

NextTwoRuns == Next \/ Rerun

TwoRuns == Init /\ [][NextTwoRuns]_vars

\* The same command run again on the same files, after a run has returned.
RunAgain ==
    /\ pc = "done"
    /\ run = 1
    /\ Len(args) <= MaxArgsAgain
    /\ run' = 2
    /\ prev_allfiles' = allfiles
    /\ prev_processed' = processed_files
    /\ pc' = "start"
    /\ inroots' = {}
    /\ fiter' = <<>>
    /\ newfiles' = {}
    /\ processed_files' = {}
    /\ allfiles' = EmptyMap
    /\ allerrors' = <<>>
    /\ reports' = [verbose |-> 0, sections |-> <<>>]
    /\ found_roots' = {}
    /\ extractions' = [p \in Paths |-> 0]
    /\ discovered' = [p \in Paths |-> 0]
    /\ queued' = {}
    /\ UNCHANGED <<args, internal, follow, found>>

\* The sequence s without its i-th element.
Without(s, i) == SubSeq(s, 1, i - 1) \o SubSeq(s, i + 1, Len(s))

\* Lines 110-144 in the second run, the iterator giving a later file of the
\* round first (another order of the directory walk of iter_pyfiles, or of
\* the set newfiles without the sorted of line 150).
ProcessOutOfOrder ==
    /\ run = 2
    /\ pc = "loop"
    /\ \E i \in 2..Len(fiter) :
           /\ ~AlreadyProcessed(fiter[i])
           /\ Process(fiter[i], Without(fiter, i))

NextAnyOrder == Next \/ RunAgain \/ ProcessOutOfOrder

\* A run in the order of the code, then a run of the same command on the
\* same files that takes the files of each round in any order.
AnyOrder == Init /\ [][NextAnyOrder]_vars

---------------------------------------------------------------------------
(* Names used by the properties. *)

Keys == DOMAIN allfiles

Ident(root, rel) == <<Str(root), Str(rel)>>
A_id == Ident(Proj, <<"a.py">>)
B_id == Ident(Proj, <<"b.py">>)
Pkg_id == Ident(Proj, <<"pkg">>)
Mod_id == Ident(Proj, <<"pkg", "mod.py">>)

\* The three tables below are written as explicit functions (f @@ <<>>), so
\* that their entries are computed once.

\* Every list of input paths a run can have.
ArgLists == SeqsUpTo(InputPaths \cup {Cwd}, MaxArgs)

\* The root set R of each list of input paths, and the one of this run.
RootsOfArgs == [a \in ArgLists |-> find_roots(a)] @@ <<>>
InputRoots == RootsOfArgs[args]

\* The files of the first round, for each list of input paths.
WorklistOfArgs == [a \in ArgLists |-> Range(iter_pyfiles(a))] @@ <<>>
InitialWorklist == WorklistOfArgs[args]

\* The identity each path has as a graph node, or None.
NodeOfPath == [f \in Paths |-> relfile(collapse(f))] @@ <<>>
NodeOf(f) == NodeOfPath[f]

\* A file whose node is in scope.
InScope(f) ==
    /\ NodeOf(f) # None
    /\ internal => \E r \in InputRoots : NodeOf(f)[1] = Str(r)

\* The while loop was left by the break of line 148.
LoopLeft == pc \in {"summary", "done", "type_error_roots"}

\* An identity whose relative path names a package initializer.
NamesInit(id) ==
    /\ id # None
    /\ id # Sentinel
    /\ basename(id[2][1]) = "__init__.py"

\* Every round ends: the loop is left by its break or by the exception of
\* line 141.
LoopEnds == (pc = "loop") ~> (pc \in {"summary", "type_error_loop"})

---------------------------------------------------------------------------
(* C1 *)

\* C1, as stated: after a run, every file discovered more than once (in the
\* first worklist or as a dependency of an importer) has been given to
\* find_dependencies exactly once.
C1_ExactlyOnce ==
    pc = "done" =>
        \A f \in Paths : discovered[f] > 1 => extractions[f] = 1

\* C1, amended: find_dependencies never runs twice on a file; and once the
\* loop has been left by its break, a file discovered more than once has
\* been extracted exactly once if it was in the first worklist or, with
\* follow on, was added to a round's candidate set.
C1_OnceWhenTaken ==
    /\ \A f \in Paths : extractions[f] <= 1
    /\ LoopLeft =>
           \A f \in Paths :
               (/\ discovered[f] > 1
                /\ (follow /\ f \in queued) \/ f \in InitialWorklist)
                   => extractions[f] = 1

\* A followed run that ended with a file met only as a dependency, of two
\* importers, and extracted once.
C1_Witness ==
    /\ pc = "done"
    /\ follow
    /\ \E f \in Paths :
           /\ discovered[f] > 1
           /\ f \in queued
           /\ f \notin InitialWorklist
           /\ extractions[f] = 1

---------------------------------------------------------------------------
(* C2 *)

\* C2: with follow on, the round loop always ends by reaching the summary.
C2_LoopReachesSummary == (follow /\ pc = "loop") ~> (pc = "summary")

---------------------------------------------------------------------------
(* C3 *)

\* C3: every key of allfiles holds the sentinel, and every processed file
\* that is in scope has its node among the keys.
C3_InScopeKeyed ==
    /\ \A k \in Keys : Sentinel \in allfiles[k]
    /\ \A f \in processed_files : InScope(f) => NodeOf(f) \in Keys

\* A finished run with an in-scope file that has only the sentinel and
\* another that has a dependency besides it.
C3_Witness ==
    /\ pc = "done"
    /\ \E f, g \in processed_files :
           /\ InScope(f) /\ InScope(g)
           /\ found[f].files = <<>>
           /\ allfiles[NodeOf(f)] = {Sentinel}
           /\ found[g].files # <<>>
           /\ Cardinality(allfiles[NodeOf(g)]) > 1

---------------------------------------------------------------------------
(* C4 *)

\* The root of an identity is one of the input roots.
RootInR(id) == \E r \in InputRoots : id[1] = Str(r)

\* C4: with internal on, every key has its root in R, and every target that
\* is not the sentinel is an identity with its root in R.
C4_InternalEndpoints ==
    internal =>
        \A k \in Keys :
            /\ RootInR(k)
            /\ \A t \in allfiles[k] : t # Sentinel => (t # None /\ RootInR(t))

\* A finished internal run in which an in-scope file imports a module of a
\* root that is not an input root.
C4_Witness ==
    /\ internal
    /\ pc = "done"
    /\ \E f \in processed_files : InScope(f) /\ Os \in Range(found[f].files)

---------------------------------------------------------------------------
(* C5 *)

\* C5: when the run with follow has left its loop or stopped, it holds every
\* processed file, every key and every edge of the run without follow on
\* the same inputs.
C5_FollowSuperset ==
    (run = 2 /\ pc \notin {"start", "loop"}) =>
        /\ prev_processed \subseteq processed_files
        /\ \A k \in DOMAIN prev_allfiles :
               k \in Keys /\ prev_allfiles[k] \subseteq allfiles[k]

\* A finished run with follow that found files and keys the run without it
\* did not.
C5_Witness ==
    /\ run = 2
    /\ pc = "done"
    /\ DOMAIN prev_allfiles # {}
    /\ prev_processed # processed_files
    /\ DOMAIN prev_allfiles # Keys

---------------------------------------------------------------------------
(* C6 *)

\* An input path that does not exist, or --internal with no root.
C6_ConfigError ==
    \/ \E i \in 1..Len(args) : args[i] \notin PyFiles \cup Dirs
    \/ internal /\ InputRoots = {}

\* C6: under a configuration error the run does not get past parser.error:
\* nothing is extracted, and processed_files, allfiles and allerrors stay
\* empty.
C6_AbortsBeforeProcessing ==
    C6_ConfigError =>
        /\ pc \in {"start", "parser_error"}
        /\ processed_files = {}
        /\ Keys = {}
        /\ allerrors = <<>>
        /\ \A f \in Paths : extractions[f] = 0

\* The run stopped on --internal with existing inputs and no root.
C6_Witness ==
    /\ pc = "parser_error"
    /\ internal
    /\ \A i \in 1..Len(args) : args[i] \in PyFiles \cup Dirs

---------------------------------------------------------------------------
(* C7 *)

\* C7: a path that resolves to no identity never makes the run fault: no
\* exception leaves the loop or the summary.
C7_MissNeverFaults == pc \notin {"type_error_loop", "type_error_roots"}

---------------------------------------------------------------------------
(* C8 *)

\* The inputs a.py and b.py; a.py imports nothing, b.py imports a and
\* nothing else.
C8_Scenario ==
    /\ args = <<A, B>>
    /\ A \in DOMAIN found
    /\ B \in DOMAIN found
    /\ found[A] = [files |-> <<>>, errors |-> <<>>]
    /\ Range(found[B].files) = {A}
    /\ found[B].errors = <<>>

\* C8: the scenario ends with a.py holding the sentinel and b.py holding the
\* sentinel and a.py, and nothing else, whatever follow and internal are.
C8_TwoFiles ==
    (C8_Scenario /\ pc = "done") =>
        allfiles = (A_id :> {Sentinel}) @@ (B_id :> {Sentinel, A_id})

\* The scenario, finished, with follow and internal on.
C8_Witness == C8_Scenario /\ pc = "done" /\ follow /\ internal

---------------------------------------------------------------------------
(* C9 *)

\* C9: no key and no target names an __init__.py; a package processed
\* through its initializer is keyed by its directory; and a dependency on
\* the package, returned as the directory or as the initializer, is the
\* edge to that same identity.
C9_PackageCollapse ==
    /\ \A k \in Keys : ~NamesInit(k) /\ \A t \in allfiles[k] : ~NamesInit(t)
    /\ (PkgInit \in processed_files /\ (internal => Proj \in InputRoots))
           => Pkg_id \in Keys
    /\ pc # "type_error_loop" =>
           \A f \in processed_files :
               (/\ InScope(f)
                /\ internal => Proj \in InputRoots
                /\ {Pkg, PkgInit} \cap Range(found[f].files) # {})
                   => Pkg_id \in allfiles[NodeOf(f)]

\* A finished run that processed the initializer and recorded the package
\* as a target once from its directory and once from its initializer.
C9_Witness ==
    /\ pc = "done"
    /\ PkgInit \in processed_files
    /\ Pkg_id \in Keys
    /\ \E f, g \in processed_files :
           /\ InScope(f) /\ InScope(g)
           /\ Pkg \in Range(found[f].files)
           /\ PkgInit \in Range(found[g].files)
           /\ Pkg_id \in allfiles[NodeOf(f)]
           /\ Pkg_id \in allfiles[NodeOf(g)]

---------------------------------------------------------------------------
(* C10 *)

\* The input pkg/; its __init__.py imports nothing, its mod.py imports pkg
\* and nothing else.
C10_Scenario ==
    /\ args = <<Pkg>>
    /\ PkgInit \in DOMAIN found
    /\ Mod \in DOMAIN found
    /\ found[PkgInit] = [files |-> <<>>, errors |-> <<>>]
    /\ found[Mod].files # <<>>
    /\ Range(found[Mod].files) \subseteq {Pkg, PkgInit}
    /\ found[Mod].errors = <<>>

\* C10, as stated: the scenario ends with the node pkg holding an edge to
\* itself, and no error record.
C10_PkgSelfLoop ==
    (C10_Scenario /\ pc = "done") =>
        /\ Pkg_id \in Keys
        /\ Pkg_id \in allfiles[Pkg_id]
        /\ allerrors = <<>>

\* C10, amended: the scenario ends with the node pkg/mod.py holding the
\* sentinel and the edge to pkg, the node pkg (no node pkg/__init__.py)
\* holding the sentinel alone, and no error record.
C10_ModImportsPkg ==
    (C10_Scenario /\ pc = "done") =>
        /\ Keys = {Pkg_id, Mod_id}
        /\ allfiles[Mod_id] = {Sentinel, Pkg_id}
        /\ allfiles[Pkg_id] = {Sentinel}
        /\ allerrors = <<>>

\* The scenario, finished, with follow on.
C10_Witness == C10_Scenario /\ pc = "done" /\ follow

---------------------------------------------------------------------------
(* C11 *)

---------------------------------------------------------------------------
(* C12 *)

\* A pair of a root and a relative path, neither of them None.
FullIdentity(t) ==
    /\ t # None
    /\ Len(t) = 2
    /\ t[1] # None
    /\ t[2] # None

\* C12: every element of every target set is the sentinel or a full
\* identity, and no path that resolves to no identity is ever added to a
\* round's candidate set.
C12_NoBareNone ==
    /\ \A k \in Keys : \A t \in allfiles[k] : t = Sentinel \/ FullIdentity(t)
    /\ \A dfn \in queued : NodeOf(dfn) # None

---------------------------------------------------------------------------
(* C13 *)

\* The files find_dependencies has been called on.
Extracted == {f \in Paths : extractions[f] > 0}

\* C13: with follow off, find_dependencies is only ever called on files of
\* the first worklist, and on all of them once the loop has been left by
\* its break; every key is the node of a file of the first worklist, so a
\* file met only as a dependency is neither extracted nor made a key.
C13_OneRound ==
    ~follow =>
        /\ Extracted \subseteq InitialWorklist
        /\ processed_files = Extracted
        /\ LoopLeft => Extracted = InitialWorklist
        /\ Keys \subseteq {NodeOf(g) : g \in InitialWorklist}
        /\ \A f \in Paths \ InitialWorklist :
               discovered[f] > 0 => extractions[f] = 0

\* A finished run without follow that queued a dependency outside the first
\* worklist and left it unextracted and without a key.
C13_Witness ==
    /\ pc = "done"
    /\ ~follow
    /\ Extracted = InitialWorklist
    /\ \E f \in queued :
           /\ f \notin InitialWorklist
           /\ extractions[f] = 0
           /\ NodeOf(f) \notin Keys

---------------------------------------------------------------------------
(* C14 *)

\* C14: a run that takes the files of each round in another order, on the
\* same inputs, modes and file contents as a run that returned, returns
\* too, and leaves its loop with the same allfiles and the same
\* processed_files.
C14_OrderIndependent ==
    run = 2 =>
        /\ pc \notin {"parser_error", "type_error_loop", "type_error_roots"}
        /\ pc \in {"summary", "done"} =>
               /\ allfiles = prev_allfiles
               /\ processed_files = prev_processed

\* A second run of the command on pkg/ that has returned with the keys of
\* the first, after taking mod.py before __init__.py: the error of mod.py
\* stands before the error of __init__.py.
C14_Witness ==
    /\ run = 2
    /\ pc = "done"
    /\ args = <<Pkg>>
    /\ Keys = {Pkg_id, Mod_id}
    /\ allfiles = prev_allfiles
    /\ found[PkgInit].errors # <<>>
    /\ found[Mod].errors # <<>>
    /\ allerrors = found[Mod].errors \o found[PkgInit].errors

---------------------------------------------------------------------------
(* C15 *)

\* C15: every step keeps every processed file, every key of allfiles and
\* every target of every key.
C15_AppendOnly ==
    [][/\ processed_files \subseteq processed_files'
       /\ \A k \in Keys :
              /\ k \in DOMAIN allfiles'
              /\ allfiles[k] \subseteq allfiles'[k]]_vars

\* A package that is a key with a dependency, from its initializer, and was
\* then processed again as a directory, in a later round.
C15_Witness ==
    /\ pc = "done"
    /\ {Pkg, PkgInit} \subseteq processed_files
    /\ found[PkgInit].files # <<>>
    /\ Cardinality(allfiles[Pkg_id]) > 1

---------------------------------------------------------------------------
(* C16 *)

\* C16: the step that processes a file that is out of scope (no identity,
\* or with internal on a root that is not an input root) leaves allfiles,
\* the candidate set and the history of candidates as they were and goes on
\* with the loop, the file now being in processed_files; and no file out of
\* scope that was processed has its node among the keys.
C16_SkippedEntirely ==
    [][/\ \A f \in processed_files' \ processed_files :
              ~InScope(f) =>
                  /\ allfiles' = allfiles
                  /\ newfiles' = newfiles
                  /\ queued' = queued
                  /\ pc' = "loop"
       /\ \A f \in processed_files' :
              ~InScope(f) => NodeOf(f) \notin DOMAIN allfiles']_vars

\* A finished run with follow that processed a file under no root; the
\* module it imports was neither queued nor processed, and nothing was
\* recorded.
C16_Witness ==
    /\ pc = "done"
    /\ follow
    /\ X \in processed_files
    /\ ~InScope(X)
    /\ A \in Range(found[X].files)
    /\ A \notin queued
    /\ A \notin processed_files
    /\ Keys = {}

---------------------------------------------------------------------------
(* C17 *)

\* The for loop of a round has come to its end.
RoundOver == pc = "loop" /\ fiter = <<>>

\* A sequence in strictly rising order.
StrictlySorted(s) == \A i, j \in 1..Len(s) : i < j => PathLess(s[i], s[j])

\* C17, as stated: with follow on, the round that follows is made of the
\* candidates not processed yet, in sorted order, and no round follows when
\* there is none.
C17_OnlyUnprocessed ==
    [][(RoundOver /\ follow) =>
           IF newfiles \ processed_files = {}
           THEN pc' = "summary"
           ELSE /\ pc' = "loop"
                /\ StrictlySorted(fiter')
                /\ Range(fiter') = newfiles \ processed_files]_vars

\* C17, amended: with follow on, the round that follows is made of all the
\* candidates of the round, processed or not, each once and in sorted order,
\* and the loop stops at the end of the first round that has no candidate;
\* when every candidate has been processed already, one more round is
\* started, whose files are all processed already.
C17_AllCandidates ==
    [][(RoundOver /\ follow) =>
           IF newfiles = {}
           THEN pc' = "summary"
           ELSE /\ pc' = "loop"
                /\ StrictlySorted(fiter')
                /\ Range(fiter') = newfiles
                /\ newfiles' = {}
                /\ newfiles \subseteq processed_files =>
                       Range(fiter') \subseteq processed_files']_vars

\* A later round whose worklist is a.py, processed already, and pkg, not
\* processed yet.
C17_Witness ==
    /\ pc = "loop"
    /\ follow
    /\ fiter = <<A, Pkg>>
    /\ A \in processed_files
    /\ Pkg \notin processed_files
    /\ newfiles = {}

---------------------------------------------------------------------------
(* C18 *)

\* The names that the error list holds for a kind.
NamesOfKind(kind) ==
    {allerrors[i][2] : i \in {j \in 1..Len(allerrors) : allerrors[j][1] = kind}}

\* The kinds that have a section in the report, in the order written.
Reported == [i \in 1..Len(reports.sections) |-> reports.sections[i][1]]

\* The report has a section for the kind.
HasSection(kind) == \E i \in 1..Len(Reported) : Reported[i] = kind

\* C18: once the report is written, it has one section at most for a kind;
\* the section of a kind lists just the names the error list holds for it,
\* each once and in rising order; a section is there for ERROR_IMPORT
\* whenever it has a name, at every verbosity, and for ERROR_SYMBOL whenever
\* it has a name and the verbosity is 2 at least.
C18_ErrorReport ==
    pc \in {"done", "type_error_roots"} =>
        /\ \A i, j \in 1..Len(Reported) : Reported[i] = Reported[j] => i = j
        /\ \A i \in 1..Len(reports.sections) :
               LET names == reports.sections[i][2]
               IN  /\ Range(names) = NamesOfKind(Reported[i])
                   /\ \A a, b \in 1..Len(names) :
                          a < b => ModuleRank(names[a]) < ModuleRank(names[b])
        /\ HasSection(ERROR_IMPORT) <=> NamesOfKind(ERROR_IMPORT) # {}
        /\ HasSection(ERROR_SYMBOL) <=>
               (reports.verbose >= 2 /\ NamesOfKind(ERROR_SYMBOL) # {})

\* A finished run whose error list holds m2 before m1, reported as m1, m2.
C18_Witness ==
    /\ pc = "done"
    /\ allerrors = <<<<ERROR_IMPORT, "m2">>, <<ERROR_IMPORT, "m1">>>>
    /\ reports.sections = <<<<ERROR_IMPORT, <<"m1", "m2">>>>>>

---------------------------------------------------------------------------
(* C19 *)

\* C19: once a run with follow has left its loop by the break, every file
\* that was ever added to a round's candidate set is in processed_files.
C19_Closed == (follow /\ LoopLeft) => queued \subseteq processed_files

\* A finished run with follow that went two imports deep: a file outside
\* the first worklist was queued and processed, and so was a file it
\* imports.
C19_Witness ==
    /\ pc = "done"
    /\ follow
    /\ \E f, g \in queued \ InitialWorklist :
           /\ f # g
           /\ g \in Range(found[f].files)
           /\ {f, g} \subseteq processed_files

---------------------------------------------------------------------------
(* C20 *)

\* C20: the error list starts empty; the step that processes a file, in
\* scope or not, puts the errors find_dependencies returned for it at the
\* end of the list, and no other step changes the list: so the list is the
\* errors of the files of processed_files, in the order of processing.
C20_ErrorsOfEveryFile ==
    /\ allerrors = <<>>
    /\ [][/\ \A f \in processed_files' \ processed_files :
                 allerrors' = allerrors \o found'[f].errors
          /\ processed_files' = processed_files => allerrors' = allerrors]_vars

\* A finished run on a.py and a file under no root, each with an error: the
\* list holds the error of a.py and then the error of the skipped file.
C20_Witness ==
    /\ pc = "done"
    /\ args = <<A, X>>
    /\ ~InScope(X)
    /\ NodeOf(X) \notin Keys
    /\ found[A].errors # <<>>
    /\ found[X].errors # <<>>
    /\ allerrors = found[A].errors \o found[X].errors

====
